---- MODULE Spec2Model ----
(***************************************************************************)
(* promptlayer/utils.py: the streaming proxy (GeneratorProxy), the         *)
(* /track-request transport call (promptlayer_api_request) and the         *)
(* orchestrator (promptlayer_api_handler), as a state machine.             *)
(*                                                                         *)
(* A Python object is a record that carries every attribute the code       *)
(* probes; an attribute the object does not have holds Absent, so that     *)
(* hasattr(x, "a") is x.a # Absent (x.a.kind # "absent" for an attribute   *)
(* that is itself an object).  Python's None is the string None.           *)
(***************************************************************************)
EXTENDS Integers, Sequences, FiniteSets, TLC

\* Number of chunks the wrapped stream may produce in one session.
MaxChunks == 3

\* The longest buffer handed to cleaned_result directly.
MaxBuffer == 3

\* The most calls of transport functions in one run.
MaxCalls == 2

\* The most chunks of a generator given to stream_response.
MaxStream == 3

Absent == "<absent>"
None == "None"

\* Python truthiness of an attribute value that is None or a string.
Truthy(v) == v \notin {None, ""}

-----------------------------------------------------------------------------
(* Chunk shapes.                                                           *)

NoMessage == [kind |-> "absent", text |-> Absent, stop_reason |-> Absent,
              usage |-> Absent, content |-> <<>>]
NoBlock == [kind |-> "absent", text |-> Absent]
NoDelta == [kind |-> "absent", text |-> Absent, role |-> Absent, content |-> Absent]
NoChoices == [kind |-> "absent", items |-> <<>>]

\* An object with none of the probed attributes.  typeIn is the outcome of the
\* expression  "type" in result : "true", "false", or "error" for an object
\* that supports neither __contains__ nor iteration.
Blank == [stop_reason |-> Absent, stop |-> Absent, type |-> Absent, typeIn |-> "false",
          message |-> NoMessage, completion |-> Absent, content_block |-> NoBlock,
          delta |-> NoDelta, choices |-> NoChoices, value |-> Absent]

\* A str, as the text view of a message stream produces: it has its value and
\* none of the probed attributes.
TextPiece(t) == [Blank EXCEPT !.value = t]

MessageObj(sr) == [kind |-> "obj", text |-> Absent, stop_reason |-> sr,
                   usage |-> "usage", content |-> <<>>]
MessageStr(t) == [kind |-> "str", text |-> t, stop_reason |-> Absent,
                  usage |-> Absent, content |-> <<>>]
TextBlock(t) == [kind |-> "obj", text |-> t]
TextDelta(t) == [NoDelta EXCEPT !.kind = "obj", !.text = t]

\* Anthropic: legacy completion chunks and message stream events.
LegacyCompletion(t, sr, flag) == [Blank EXCEPT !.completion = t, !.stop_reason = sr,
                                  !.stop = flag, !.type = "completion"]
LegacyStopFlag(t) == [Blank EXCEPT !.completion = t, !.stop = "True"]
MessageStart == [Blank EXCEPT !.type = "message_start", !.message = MessageObj(None)]
ContentBlockStart(tin) == [Blank EXCEPT !.type = "content_block_start", !.typeIn = tin,
                           !.content_block = TextBlock("")]
\* A content_block_start event whose block already carries text.
ContentBlockText(t, tin) == [ContentBlockStart(tin) EXCEPT !.content_block = TextBlock(t)]
ContentBlockDelta(t) == [Blank EXCEPT !.type = "content_block_delta", !.delta = TextDelta(t)]
MessageDelta == [Blank EXCEPT !.type = "message_delta",
                 !.delta = [NoDelta EXCEPT !.kind = "obj"]]
MessageStop == [Blank EXCEPT !.type = "message_stop"]
\* The helper stream's message_stop event carries the finished message.
MessageStopSnapshot == [Blank EXCEPT !.type = "message_stop",
                        !.message = MessageObj("end_turn")]
MessageText(t) == [Blank EXCEPT !.message = MessageStr(t)]
\* An event with a null stop_reason attribute next to the message_stop marker.
NullStopMarker == [Blank EXCEPT !.type = "message_stop", !.stop_reason = None]

\* The chunks the wrapped stream of a session may produce.
AnthropicChunks ==
    { LegacyCompletion("o", "stop_sequence", "True"), LegacyStopFlag("x"),
      MessageStart, ContentBlockStart("false"), MessageStop, MessageStopSnapshot,
      NullStopMarker }

\* OpenAI: chat chunks (delta), completion chunks (text), and a chunk whose
\* choices list is empty.
ChatChoice(role, content, fr) ==
    [finish_reason |-> fr, text |-> Absent,
     delta |-> [kind |-> "obj", text |-> Absent, role |-> role, content |-> content]]
TextChoice(t, fr) == [finish_reason |-> fr, text |-> t, delta |-> NoDelta]
WithChoices(cs) == [Blank EXCEPT !.choices = [kind |-> "list", items |-> cs]]

OpenAIChunks ==
    { WithChoices(<<ChatChoice("assistant", "Hel", None)>>),
      WithChoices(<<ChatChoice(None, None, "stop")>>),
      WithChoices(<<ChatChoice(None, "lo", "length")>>),
      WithChoices(<<ChatChoice(None, None, "tool_calls")>>),
      WithChoices(<<TextChoice("B", "stop")>>),
      WithChoices(<<>>) }

ProviderTypes == {"openai", "anthropic"}

ChunksOf(provider_type) ==
    IF provider_type = "anthropic" THEN AnthropicChunks ELSE OpenAIChunks

-----------------------------------------------------------------------------
(* Completion detection, GeneratorProxy._abstracted_next.  An operator     *)
(* that can raise yields a record whose exc field names the exception      *)
(* ("none" when it returns).                                               *)

Ok(v) == [exc |-> "none", val |-> v]
Raise(e) == [exc |-> e, val |-> FALSE]

\* Variant of end_anthropic that lacks the message_stop branch.
end_anthropic_no_marker(result) ==
    IF result.stop_reason # Absent THEN Ok(Truthy(result.stop_reason))
    ELSE IF result.message.kind # "absent" THEN
        IF result.message.stop_reason = Absent THEN Raise("AttributeError")
        ELSE Ok(Truthy(result.message.stop_reason))
    ELSE Ok(FALSE)

\* if hasattr(result, "stop_reason") ... elif hasattr(result, "message") ...
\* elif hasattr(result, "type") and result.type == "message_stop"
end_anthropic(result) ==
    IF result.stop_reason # Absent THEN Ok(Truthy(result.stop_reason))
    ELSE IF result.message.kind # "absent" THEN
        IF result.message.stop_reason = Absent THEN Raise("AttributeError")
        ELSE Ok(Truthy(result.message.stop_reason))
    ELSE IF result.type # Absent /\ result.type = "message_stop" THEN Ok(TRUE)
    ELSE Ok(FALSE)

\* result.choices[0].finish_reason
first_finish_reason(result) ==
    IF result.choices.kind = "absent" THEN Raise("AttributeError")
    ELSE IF Len(result.choices.items) = 0 THEN Raise("IndexError")
    ELSE Ok(result.choices.items[1].finish_reason)

\* Variants of end_openai: one that knows only "stop", one that takes every
\* chunk with a first choice for the end.
end_openai_stop_only(provider_type, result) ==
    IF provider_type # "openai" THEN Ok(FALSE)
    ELSE LET fr == first_finish_reason(result) IN
         IF fr.exc # "none" THEN fr ELSE Ok(fr.val = "stop")

end_openai_any_chunk(provider_type, result) ==
    IF provider_type # "openai" THEN Ok(FALSE)
    ELSE LET fr == first_finish_reason(result) IN
         IF fr.exc # "none" THEN fr ELSE Ok(TRUE)

\* provider_type == "openai" and (finish_reason == "stop" or ... == "length")
end_openai(provider_type, result) ==
    IF provider_type # "openai" THEN Ok(FALSE)
    ELSE LET fr == first_finish_reason(result) IN
         IF fr.exc # "none" THEN fr ELSE Ok(fr.val = "stop" \/ fr.val = "length")

\* The two predicates of _abstracted_next in the order the code evaluates
\* them; the first exception ends the call.
detect_end(provider_type, result) ==
    LET a == IF provider_type = "anthropic" THEN end_anthropic(result) ELSE Ok(FALSE)
    IN IF a.exc # "none" THEN a
       ELSE LET o == end_openai(provider_type, result) IN
            IF o.exc # "none" THEN o ELSE Ok(a.val \/ o.val)

-----------------------------------------------------------------------------
(* Reassembly, GeneratorProxy.cleaned_result.                              *)

\* The text one buffered chunk adds in the anthropic loop.
anthropic_piece(result) ==
    IF result.completion # Absent THEN Ok(result.completion)
    ELSE IF result.message.kind = "str" THEN Ok(result.message.text)
    ELSE LET probed == result.content_block.kind # "absent"
                        /\ result.content_block.text # Absent
         IN IF probed /\ result.typeIn = "error" THEN Raise("TypeError")
            ELSE IF probed /\ result.typeIn = "true" /\ result.type # "message_stop"
                 THEN Ok(result.content_block.text)
            ELSE IF result.delta.kind # "absent" /\ result.delta.text # Absent
                 THEN Ok(result.delta.text)
            ELSE Ok("")

\* Variant of anthropic_text that keeps only the newest piece.
anthropic_text_newest(results, n) ==
    IF n = 0 THEN Ok("") ELSE anthropic_piece(results[n])

RECURSIVE anthropic_text(_, _)
anthropic_text(results, n) ==
    IF n = 0 THEN Ok("")
    ELSE LET before == anthropic_text(results, n - 1) IN
         IF before.exc # "none" THEN before
         ELSE LET piece == anthropic_piece(results[n]) IN
              IF piece.exc # "none" THEN piece ELSE Ok(before.val \o piece.val)

AsObject(o) == [form |-> "object", obj |-> o]
AsStr(t) == [form |-> "str", obj |-> t]

anthropic_final(results, response) ==
    LET last == results[Len(results)] IN
    IF last.type # Absent /\ last.type = "message_stop" THEN
        IF results[1].message.kind = "absent" THEN Raise("AttributeError")
        ELSE IF results[1].message.kind = "str" THEN Raise("AttributeError")
        ELSE IF Len(results) < 2 THEN Raise("IndexError")
        ELSE IF results[2].content_block.kind = "absent" THEN Raise("AttributeError")
        ELSE Ok(AsObject([results[1].message EXCEPT
                 !.usage = None,
                 !.content = <<[results[2].content_block EXCEPT !.text = response]>>]))
    ELSE Ok(AsObject([last EXCEPT !.completion = response]))

\* results[i].choices[0]
first_choice(result) ==
    IF result.choices.kind = "absent" THEN Raise("AttributeError")
    ELSE IF Len(result.choices.items) = 0 THEN Raise("IndexError")
    ELSE Ok(result.choices.items[1])

\* Variant of openai_text that keeps only the newest text.
openai_text_newest(results, n) ==
    IF n = 0 THEN Ok("")
    ELSE LET c == first_choice(results[n]) IN
         IF c.exc # "none" THEN c
         ELSE IF c.val.text = Absent THEN Raise("AttributeError")
         ELSE Ok(c.val.text)

RECURSIVE openai_text(_, _)
openai_text(results, n) ==
    IF n = 0 THEN Ok("")
    ELSE LET before == openai_text(results, n - 1) IN
         IF before.exc # "none" THEN before
         ELSE LET c == first_choice(results[n]) IN
              IF c.exc # "none" THEN c
              ELSE IF c.val.text = Absent THEN Raise("AttributeError")
              ELSE Ok(before.val \o c.val.text)

\* Variant of openai_delta in which the first role seen is kept.
RECURSIVE openai_delta_first_role(_, _)
openai_delta_first_role(results, n) ==
    IF n = 0 THEN Ok([role |-> "", content |-> ""])
    ELSE LET before == openai_delta_first_role(results, n - 1) IN
         IF before.exc # "none" THEN before
         ELSE LET c == first_choice(results[n]) IN
              IF c.exc # "none" THEN c
              ELSE IF c.val.delta.kind = "absent" THEN Raise("AttributeError")
              ELSE LET d == c.val.delta
                       role == IF d.role # Absent /\ d.role # None /\ before.val.role = ""
                               THEN d.role ELSE before.val.role
                       content == IF d.content # Absent /\ d.content # None
                                  THEN before.val.content \o d.content
                                  ELSE before.val.content
                   IN Ok([role |-> role, content |-> content])

RECURSIVE openai_delta(_, _)
openai_delta(results, n) ==
    IF n = 0 THEN Ok([role |-> "", content |-> ""])
    ELSE LET before == openai_delta(results, n - 1) IN
         IF before.exc # "none" THEN before
         ELSE LET c == first_choice(results[n]) IN
              IF c.exc # "none" THEN c
              ELSE IF c.val.delta.kind = "absent" THEN Raise("AttributeError")
              ELSE LET d == c.val.delta
                       role == IF d.role # Absent /\ d.role # None
                               THEN d.role ELSE before.val.role
                       content == IF d.content # Absent /\ d.content # None
                                  THEN before.val.content \o d.content
                                  ELSE before.val.content
                   IN Ok([role |-> role, content |-> content])

ReplaceFirst(items, c) == [i \in 1..Len(items) |-> IF i = 1 THEN c ELSE items[i]]

cleaned_result(results, provider_type) ==
    IF Len(results) = 0 THEN Raise("IndexError")
    ELSE IF provider_type = "anthropic" THEN
        LET response == anthropic_text(results, Len(results)) IN
        IF response.exc # "none" THEN response
        ELSE anthropic_final(results, response.val)
    ELSE
        LET first == first_choice(results[1])
            last == results[Len(results)]
        IN IF first.exc # "none" THEN first
           ELSE IF first.val.text # Absent THEN
               LET response == openai_text(results, Len(results)) IN
               IF response.exc # "none" THEN response
               ELSE Ok(AsObject([last EXCEPT !.choices.items =
                        ReplaceFirst(@, [last.choices.items[1] EXCEPT
                                          !.text = response.val])]))
           ELSE IF first.val.delta.kind # "absent" THEN
               LET response == openai_delta(results, Len(results)) IN
               IF response.exc # "none" THEN response
               ELSE Ok(AsObject([last EXCEPT !.choices.items =
                        ReplaceFirst(@, response.val)]))
           ELSE Ok(AsStr(""))

\* Variant of deepcopy that hands back the buffered object itself.
deepcopy_shares(obj) == [shared |-> TRUE, obj |-> obj]

\* copy.deepcopy: a new object equal to obj that shares nothing with it.
deepcopy(obj) == [shared |-> FALSE, obj |-> obj]

\* The buffer after an attribute assignment made through `copy`, a copy of
\* (a part of) results[i]; written is results[i] with that attribute set.
assigned(results, i, copy, written) ==
    IF copy.shared THEN [results EXCEPT ![i] = written] ELSE results

\* self.results once cleaned_result has returned or raised: the assignments
\* of lines 490-493, 496, 503 and 523, in the order the code makes them.
results_after_cleaned_result(results, provider_type) ==
    LET n == Len(results) IN
    IF n = 0 THEN results
    ELSE IF provider_type = "anthropic" THEN
        LET response == anthropic_text(results, n)
            last == results[n]
        IN IF response.exc # "none" THEN results
           ELSE IF last.type # Absent /\ last.type = "message_stop" THEN
               IF results[1].message.kind # "obj" THEN results
               ELSE LET final_result == deepcopy(results[1].message)
                        one == assigned(results, 1, final_result,
                                        [results[1] EXCEPT !.message.usage = None])
                    IN IF n < 2 \/ one[2].content_block.kind = "absent" THEN one
                       ELSE LET content_block == deepcopy(one[2].content_block)
                                two == assigned(one, 2, content_block,
                                          [one[2] EXCEPT !.content_block.text = response.val])
                            IN assigned(two, 1, final_result,
                                   [two[1] EXCEPT !.message.content =
                                       <<[one[2].content_block EXCEPT !.text = response.val]>>])
           ELSE assigned(results, n, deepcopy(last),
                         [last EXCEPT !.completion = response.val])
    ELSE
        LET final_result == cleaned_result(results, provider_type) IN
        IF final_result.exc # "none" \/ final_result.val.form = "str" THEN results
        ELSE assigned(results, n, deepcopy(results[n]), final_result.val.obj)

-----------------------------------------------------------------------------
(* Transport: the POST to /track-request, promptlayer_api_request.         *)

\* What requests.post does: it raises (network failure), or it returns a
\* response with a status code and a body.  A body is a JSON object (with or
\* without a request_id) or text that is not JSON.
JsonObject(id, msg) == [kind |-> "dict", request_id |-> id, message |-> msg]
NotJson == [kind |-> "not_json", request_id |-> Absent, message |-> Absent]
Reply(status, body) == [net |-> "ok", status |-> status, body |-> body]
NetworkError == [net |-> "error", status |-> 0, body |-> NotJson]

\* The replies the backend may give to the n-th POST of a run; it numbers the
\* requests it logs.
Replies(n) ==
    { Reply(200, JsonObject("pl-" \o ToString(n), Absent)),
      Reply(500, JsonObject(Absent, "error")),
      Reply(500, NotJson),
      NetworkError }

\* request_response.json().get(key)
json_get(body, key) ==
    IF body.kind = "not_json" THEN Raise("JSONDecodeError")
    ELSE Ok(IF key = "request_id"
            THEN (IF body.request_id = Absent THEN None ELSE body.request_id)
            ELSE (IF body.message = Absent THEN None ELSE body.message))

\* Prints the warning; val is the number of lines printed to stderr.  Only
\* json.JSONDecodeError is caught here.
warn_on_bad_response(request_response) ==
    LET msg == json_get(request_response.body, "message") IN
    IF msg.exc = "none" \/ msg.exc = "JSONDecodeError" THEN Ok(1)
    ELSE Raise(msg.exc)

\* response.dict() for an SDK object; a str has no dict attribute.
to_dict(response) ==
    IF response.form = "object" THEN [response EXCEPT !.form = "dict"] ELSE response

\* The try block, lines 154-185, then the return of lines 186-187, which is
\* outside it.  warnings counts the lines printed to stderr.
promptlayer_api_request(response, return_pl_id, reply) ==
    LET body == to_dict(response)
        warnings ==
            IF reply.net = "error" THEN 1
            ELSE IF reply.status # 200
                 THEN (LET w == warn_on_bad_response(reply) IN
                       IF w.exc = "none" THEN w.val ELSE 1)
                 ELSE 0
        request_id ==
            IF reply.net = "ok" /\ return_pl_id
            THEN json_get(reply.body, "request_id")
            ELSE Ok(None)
    IN [exc |-> request_id.exc,
        val |-> IF request_id.exc = "none" THEN request_id.val ELSE None,
        warnings |-> warnings,
        body |-> body]

\* One POST as the backend sees it: the fields of the JSON body that come
\* from the caller's arguments, the thread that made it and the time (at) it
\* was made.
Post(origin, thread, entry, buffered, args, clock, reply, r) ==
    [endpoint |-> "/track-request", origin |-> origin, thread |-> thread,
     entry |-> entry, buffered |-> buffered, return_pl_id |-> args.return_pl_id,
     tags |-> args.tags, request_start_time |-> args.request_start_time,
     request_end_time |-> args.request_end_time, at |-> clock,
     reply |-> reply, body |-> r.body, exc |-> r.exc, val |-> r.val,
     warnings |-> r.warnings]

-----------------------------------------------------------------------------
(* The other transport functions.  Each is the function's outcome for one  *)
(* reply of the backend: the exception that leaves it ("none" when it      *)
(* returns), the value returned and the number of warnings printed.        *)

Result(exc, val, warnings) == [exc |-> exc, val |-> val, warnings |-> warnings]

\* A JSON object with an id, the body /create-group answers with.
GroupObject(id) == [kind |-> "dict", request_id |-> Absent, message |-> Absent, id |-> id]

\* The replies a backend call may get.
TransportReplies ==
    { Reply(200, JsonObject("pl-1", Absent)), Reply(200, GroupObject("g-1")),
      Reply(200, NotJson), Reply(400, JsonObject(Absent, "error")),
      Reply(500, NotJson), NetworkError }

\* Lines printed by warn_on_bad_response for a reply with a bad status.
warned(reply) == warn_on_bad_response(reply).val

\* track_request catches requests.exceptions.RequestException only.  What
\* response.json() raises for a body that is not JSON is a RequestException
\* in requests 2.27 and later and a plain JSONDecodeError before
\* (json_is_request_exception).
track_request(reply, json_is_request_exception) ==
    IF reply.net = "error" THEN Result("none", "{}", 1)
    ELSE LET w == IF reply.status # 200 THEN warned(reply) ELSE 0 IN
         IF reply.body.kind = "not_json" THEN
             IF json_is_request_exception THEN Result("none", "{}", w + 1)
             ELSE Result("JSONDecodeError", None, w)
         ELSE Result("none", "json", w)

\* promptlayer_track_prompt, promptlayer_track_metadata and
\* promptlayer_track_score share one shape: everything inside
\* try / except Exception.
promptlayer_track(reply) ==
    IF reply.net = "error" THEN Result("none", "False", 1)
    ELSE IF reply.status # 200 THEN Result("none", "False", warned(reply))
    ELSE Result("none", "True", 0)

promptlayer_track_prompt(reply) == promptlayer_track(reply)
promptlayer_track_metadata(reply) == promptlayer_track(reply)
promptlayer_track_score(reply) == promptlayer_track(reply)

\* Variant of promptlayer_create_group that swallows a network failure.
promptlayer_create_group_swallows(reply) ==
    IF reply.net = "error" THEN Result("none", "False", 1)
    ELSE IF reply.status # 200 THEN Result("none", "False", warned(reply))
    ELSE IF reply.body.kind = "not_json" THEN Result("JSONDecodeError", None, 0)
    ELSE IF "id" \notin DOMAIN reply.body THEN Result("KeyError", None, 0)
    ELSE Result("none", reply.body.id, 0)

\* except RequestException: raise Exception(...); the id is read after the try.
promptlayer_create_group(reply) ==
    IF reply.net = "error" THEN Result("Exception", None, 0)
    ELSE IF reply.status # 200 THEN Result("none", "False", warned(reply))
    ELSE IF reply.body.kind = "not_json" THEN Result("JSONDecodeError", None, 0)
    ELSE IF "id" \notin DOMAIN reply.body THEN Result("KeyError", None, 0)
    ELSE Result("none", reply.body.id, 0)

promptlayer_track_group(reply) ==
    IF reply.net = "error" THEN Result("Exception", None, 0)
    ELSE IF reply.status # 200 THEN Result("none", "False", warned(reply))
    ELSE Result("none", "True", 0)

\* raise_on_bad_response raises Exception on both of its paths.
promptlayer_get_prompt(reply) ==
    IF reply.net = "error" THEN Result("Exception", None, 0)
    ELSE IF reply.status # 200 THEN Result("Exception", None, 0)
    ELSE IF reply.body.kind = "not_json" THEN Result("JSONDecodeError", None, 0)
    ELSE Result("none", "json", 0)

promptlayer_publish_prompt(reply) ==
    IF reply.net = "error" THEN Result("Exception", None, 0)
    ELSE IF reply.status # 200 THEN Result("Exception", None, 0)
    ELSE Result("none", "True", 0)

get_prompt_template(reply, json_is_request_exception) ==
    IF reply.net = "error" THEN Result("Exception", None, 0)
    ELSE IF reply.status # 200 THEN Result("Exception", None, 0)
    ELSE IF reply.body.kind = "not_json" THEN
        Result(IF json_is_request_exception THEN "Exception" ELSE "JSONDecodeError",
               None, 0)
    ELSE Result("none", "json", 0)

publish_prompt_template(reply, json_is_request_exception) ==
    IF reply.net = "error" THEN Result("Exception", None, 0)
    ELSE IF reply.status = 400 THEN Result("Exception", None, 0)
    ELSE IF reply.body.kind = "not_json" THEN
        Result(IF json_is_request_exception THEN "Exception" ELSE "JSONDecodeError",
               None, 0)
    ELSE Result("none", "json", 0)

-----------------------------------------------------------------------------
(* GeneratorProxy._abstracted_next.                                        *)

NoItem == [chunk |-> Blank, paired |-> FALSE, request_id |-> Absent]

\* Variant of return_value that never pairs the chunk with the id.
return_value_bare(result, return_pl_id, request_id) ==
    [chunk |-> result, paired |-> FALSE, request_id |-> Absent]

\* return result, request_id  /  return result, None  /  return result
return_value(result, return_pl_id, request_id) ==
    [chunk |-> result, paired |-> return_pl_id,
     request_id |-> IF return_pl_id THEN request_id ELSE Absent]

\* The effect of one call: the buffer afterwards, the exception that left it,
\* whether the chunk was found terminal, the POSTs made, the item returned and
\* the length of the buffer cleaned_result was called on (0: not called).
Outcome(results, exc, terminal, posts, item, fed) ==
    [results |-> results, exc |-> exc, terminal |-> terminal, posts |-> posts,
     item |-> item, fed |-> fed]

\* Variant of appended that leaves the buffer as it was.
appended_nothing(results, result) == results

\* self.results.append(result)
appended(results, result) == Append(results, result)

\* Variant of abstracted_next that buffers the chunk after the completion check.
abstracted_next_buffers_late(results, args, result, reply, thread, entry, clock) ==
    LET buffered == appended(results, result)
        end == detect_end(args.provider_type, result)
    IN IF end.exc # "none" THEN Outcome(results, end.exc, FALSE, <<>>, NoItem, 0)
       ELSE IF end.val THEN
           LET fed == buffered
               cleaned == cleaned_result(fed, args.provider_type)
               kept == results_after_cleaned_result(buffered, args.provider_type)
           IN
           IF cleaned.exc # "none"
           THEN Outcome(kept, cleaned.exc, TRUE, <<>>, NoItem, Len(fed))
           ELSE LET r == promptlayer_api_request(cleaned.val, args.return_pl_id, reply)
                    post == Post("proxy", thread, entry, Len(buffered),
                                 args, clock, reply, r)
                IN IF r.exc # "none"
                   THEN Outcome(kept, r.exc, TRUE, <<post>>, NoItem, Len(fed))
                   ELSE Outcome(kept, "none", TRUE, <<post>>,
                                return_value(result, args.return_pl_id, r.val), Len(fed))
       ELSE Outcome(buffered, "none", FALSE, <<>>,
                    return_value(result, args.return_pl_id, None), 0)

\* Variant of abstracted_next that reassembles before buffering the chunk.
abstracted_next_cleans_early(results, args, result, reply, thread, entry, clock) ==
    LET buffered == appended(results, result)
        end == detect_end(args.provider_type, result)
    IN IF end.exc # "none" THEN Outcome(buffered, end.exc, FALSE, <<>>, NoItem, 0)
       ELSE IF end.val THEN
           LET fed == results
               cleaned == cleaned_result(fed, args.provider_type)
               kept == results_after_cleaned_result(buffered, args.provider_type)
           IN
           IF cleaned.exc # "none"
           THEN Outcome(kept, cleaned.exc, TRUE, <<>>, NoItem, Len(fed))
           ELSE LET r == promptlayer_api_request(cleaned.val, args.return_pl_id, reply)
                    post == Post("proxy", thread, entry, Len(buffered),
                                 args, clock, reply, r)
                IN IF r.exc # "none"
                   THEN Outcome(kept, r.exc, TRUE, <<post>>, NoItem, Len(fed))
                   ELSE Outcome(kept, "none", TRUE, <<post>>,
                                return_value(result, args.return_pl_id, r.val), Len(fed))
       ELSE Outcome(buffered, "none", FALSE, <<>>,
                    return_value(result, args.return_pl_id, None), 0)

\* _abstracted_next(result): buffer, detect, and on a terminal chunk reassemble
\* and dispatch; results is the buffer when the call returns or raises.
abstracted_next(results, args, result, reply, thread, entry, clock) ==
    LET buffered == appended(results, result)
        end == detect_end(args.provider_type, result)
    IN IF end.exc # "none" THEN Outcome(buffered, end.exc, FALSE, <<>>, NoItem, 0)
       ELSE IF end.val THEN
           LET fed == buffered
               cleaned == cleaned_result(fed, args.provider_type)
               kept == results_after_cleaned_result(buffered, args.provider_type)
           IN
           IF cleaned.exc # "none"
           THEN Outcome(kept, cleaned.exc, TRUE, <<>>, NoItem, Len(fed))
           ELSE LET r == promptlayer_api_request(cleaned.val, args.return_pl_id, reply)
                    post == Post("proxy", thread, entry, Len(buffered),
                                 args, clock, reply, r)
                IN IF r.exc # "none"
                   THEN Outcome(kept, r.exc, TRUE, <<post>>, NoItem, Len(fed))
                   ELSE Outcome(kept, "none", TRUE, <<post>>,
                                return_value(result, args.return_pl_id, r.val), Len(fed))
       ELSE Outcome(buffered, "none", FALSE, <<>>,
                    return_value(result, args.return_pl_id, None), 0)

\* Variant of exhausted_next that reports the session when the stream ends.
exhausted_next_flushes(results, entry) ==
    [results |-> results,
     posts |-> <<Post("proxy", "caller", entry, Len(results),
                      [return_pl_id |-> FALSE, tags |-> <<>>,
                       request_start_time |-> 0, request_end_time |-> 0],
                      0, NetworkError,
                      promptlayer_api_request(AsStr(""), FALSE, NetworkError))>>,
     signal |-> IF entry = "async" THEN "StopAsyncIteration" ELSE "StopIteration"]

\* next(self.generator) / await self.generator.__anext__() on an exhausted
\* stream: the exception leaves __next__ / __anext__ before _abstracted_next.
exhausted_next(results, entry) ==
    [results |-> results, posts |-> <<>>,
     signal |-> IF entry = "async" THEN "StopAsyncIteration" ELSE "StopIteration"]

-----------------------------------------------------------------------------
(* Orchestrator, promptlayer_api_handler.                                  *)

StreamTypeNames == {"Stream", "AsyncStream", "AsyncMessageStreamManager",
                    "MessageStreamManager"}

\* A provider response: a generator, an async generator, or an object of a
\* named class.
Responses ==
    { [pytype |-> "generator", name |-> "generator"],
      [pytype |-> "async_generator", name |-> "async_generator"] }
    \cup { [pytype |-> "object", name |-> n] :
           n \in StreamTypeNames \cup {"ChatCompletion", "Message", "MessageStream"} }

is_stream(response) ==
    \/ response.pytype = "generator"
    \/ response.pytype = "async_generator"
    \/ response.name \in StreamTypeNames


\* The two branches.  kind is "proxy" (a GeneratorProxy over the response was
\* returned), "value" (the response was returned) or "raise".
promptlayer_api_handler(response, args, reply, thread, entry, clock) ==
    IF is_stream(response)
    THEN [kind |-> "proxy", exc |-> "none", posts |-> <<>>,
          value |-> return_value(response, FALSE, None)]
    ELSE LET r == promptlayer_api_request(AsObject(response), args.return_pl_id, reply)
             post == Post("handler", thread, entry, 0, args, clock, reply, r)
         IN IF r.exc # "none"
            THEN [kind |-> "raise", exc |-> r.exc, posts |-> <<post>>,
                  value |-> return_value(response, FALSE, None)]
            ELSE [kind |-> "value", exc |-> "none", posts |-> <<post>>,
                  value |-> return_value(response, args.return_pl_id, r.val)]

\* The thread a call runs on.  run_in_thread_async hands the handler to the
\* executor; __next__ and __anext__ call _abstracted_next inline.
handler_thread(entry) == IF entry = "async" THEN "worker" ELSE "caller"
next_thread(entry) == IF entry = "async" THEN "event_loop" ELSE "caller"

-----------------------------------------------------------------------------
(* The state machine.                                                      *)

VARIABLES
    entry,                  \* "sync" or "async": the call path of the wrapper
    api_request_arugments,  \* the snapshot given to the handler and the proxy
    response,               \* what the provider call returned
    phase,                  \* "start", "streaming", "returned" or "raised"
    handled,                \* what promptlayer_api_handler did
    results,                \* GeneratorProxy.results, the buffer
    calls,                  \* one record per chunk the wrapped stream produced
    last,                   \* how the latest next call ended
    transport,              \* the POSTs made so far, in order
    now,                    \* the clock (datetime.datetime.now().timestamp())
    cleaned,                \* what a direct call of cleaned_result gave
    call,                   \* a call of a transport function and its outcome
    stream                  \* the frame of a stream_response generator

vars == <<entry, api_request_arugments, response, phase, handled, results, calls,
          last, transport, now, cleaned, call, stream>>

\* No stream_response generator exists.
NoStream == [pc |-> "none"]

\* The snapshots a wrapper can hand over.  request_start_time is taken before
\* the provider call and request_end_time when it has returned, which for a
\* stream is when the stream object exists and no chunk has been read.
Snapshots ==
    [provider_type : ProviderTypes, return_pl_id : BOOLEAN, tags : {<<"tag">>},
     request_start_time : {0}, request_end_time : {1}]

NotCleaned == [input |-> <<>>, exc |-> "none", val |-> AsStr("")]
NoCall == [fn |-> "none", reply |-> NetworkError, exc |-> "none", val |-> None,
           warnings |-> 0]

NotHandled == [kind |-> "none", exc |-> "none", posts |-> <<>>,
               value |-> NoItem]

\* The generator a wrapper of the given call path hands to the proxy.
GeneratorOf(e) ==
    IF e = "async" THEN [pytype |-> "async_generator", name |-> "async_generator"]
    ELSE [pytype |-> "generator", name |-> "generator"]

\* A stream session right after GeneratorProxy.__init__.
Init ==
    /\ entry \in {"sync", "async"}
    /\ api_request_arugments \in Snapshots
    /\ response = GeneratorOf(entry)
    /\ phase = "streaming"
    /\ now = api_request_arugments.request_end_time
    /\ handled = promptlayer_api_handler(response, api_request_arugments, NetworkError,
                                         handler_thread(entry), entry, now)
    /\ results = <<>>
    /\ calls = <<>>
    /\ last = [kind |-> "none", signal |-> "none"]
    /\ transport = <<>>
    /\ cleaned = NotCleaned
    /\ call = NoCall
    /\ stream = NoStream

\* A provider call has returned and the handler has not run yet.
InitHandler ==
    /\ entry \in {"sync", "async"}
    /\ api_request_arugments \in Snapshots
    /\ response \in Responses
    /\ phase = "start"
    /\ now = api_request_arugments.request_end_time
    /\ handled = NotHandled
    /\ results = <<>>
    /\ calls = <<>>
    /\ last = [kind |-> "none", signal |-> "none"]
    /\ transport = <<>>
    /\ cleaned = NotCleaned
    /\ call = NoCall
    /\ stream = NoStream

\* promptlayer_api_handler on a stream: GeneratorProxy.__init__.
HandleStream ==
    /\ phase = "start"
    /\ is_stream(response)
    /\ LET h == promptlayer_api_handler(response, api_request_arugments, NetworkError,
                                        handler_thread(entry), entry, now)
       IN /\ handled' = h
          /\ transport' = transport \o h.posts
    /\ phase' = "streaming"
    /\ results' = <<>>
    /\ UNCHANGED <<entry, api_request_arugments, response, calls, last, now, cleaned,
                   call, stream>>

\* promptlayer_api_handler on anything else: one dispatch, then the return.
HandlePlain ==
    /\ phase = "start"
    /\ ~is_stream(response)
    /\ \E reply \in Replies(Len(transport) + 1) :
         LET h == promptlayer_api_handler(response, api_request_arugments, reply,
                                          handler_thread(entry), entry, now)
         IN /\ handled' = h
            /\ transport' = transport \o h.posts
            /\ phase' = IF h.kind = "raise" THEN "raised" ELSE "returned"
    /\ UNCHANGED <<entry, api_request_arugments, response, results, calls, last, now,
                   cleaned, call, stream>>

\* GeneratorProxy.__next__ / __anext__ when the wrapped stream produces a chunk;
\* time has passed since the previous call.
ProxyNext ==
    /\ phase = "streaming"
    /\ last.kind # "stop"
    /\ Len(calls) < MaxChunks
    /\ \E result \in ChunksOf(api_request_arugments.provider_type), reply \in Replies(Len(transport) + 1) :
         \E o \in {abstracted_next(results, api_request_arugments, result, reply,
                                  next_thread(entry), entry, now + 1)} :
            /\ results' = o.results
            /\ transport' = transport \o o.posts
            /\ calls' = Append(calls, [chunk |-> result, exc |-> o.exc,
                                       terminal |-> o.terminal,
                                       posted |-> Len(o.posts) > 0,
                                       post |-> IF Len(o.posts) > 0
                                                THEN Len(transport) + 1 ELSE 0,
                                       item |-> o.item, fed |-> o.fed])
            /\ last' = [kind |-> IF o.exc = "none" THEN "item" ELSE "raise",
                        signal |-> o.exc]
    /\ now' = now + 1
    /\ UNCHANGED <<entry, api_request_arugments, response, phase, handled, cleaned,
                   call, stream>>

\* GeneratorProxy.__next__ / __anext__ when the wrapped stream is exhausted.
ProxyExhausted ==
    /\ phase = "streaming"
    /\ LET o == exhausted_next(results, entry)
       IN /\ results' = o.results
          /\ transport' = transport \o o.posts
          /\ last' = [kind |-> "stop", signal |-> o.signal]
    /\ UNCHANGED <<entry, api_request_arugments, response, phase, handled, calls, now,
                   cleaned, call, stream>>

Next == ProxyNext \/ ProxyExhausted

Spec == Init /\ [][Next]_vars

\* GeneratorProxy.__getattr__("text_stream"): a new proxy over the wrapped
\* stream's text view, with the same snapshot and an empty buffer; the caller
\* goes on with that proxy.
GetTextStream ==
    /\ phase = "streaming"
    /\ last.kind \in {"none", "item", "attr"}
    /\ response' = [pytype |-> response.pytype, name |-> "text_stream"]
    /\ results' = <<>>
    /\ last' = [kind |-> "attr", signal |-> "text_stream"]
    /\ UNCHANGED <<entry, api_request_arugments, phase, handled, calls, transport, now,
                   cleaned, call, stream>>

\* GeneratorProxy.__getattr__(name) for any other name: the wrapped object's
\* attribute, the proxy untouched.
GetAttr ==
    /\ phase = "streaming"
    /\ last.kind \in {"none", "item", "attr"}
    /\ \E name \in {"response", "close"} :
         last' = [kind |-> "attr", signal |-> name]
    /\ UNCHANGED <<entry, api_request_arugments, response, phase, handled, results,
                   calls, transport, now, cleaned, call, stream>>

\* What the text view of a message stream produces.
TextPieces == {TextPiece("Hel"), TextPiece("lo")}

\* __next__ / __anext__ of the proxy over the text view.
ProxyNextText ==
    /\ phase = "streaming"
    /\ response.name = "text_stream"
    /\ last.kind \in {"item", "attr"}
    /\ Len(calls) < MaxChunks
    /\ \E result \in TextPieces, reply \in Replies(Len(transport) + 1) :
         \E o \in {abstracted_next(results, api_request_arugments, result, reply,
                                  next_thread(entry), entry, now + 1)} :
            /\ results' = o.results
            /\ transport' = transport \o o.posts
            /\ calls' = Append(calls, [chunk |-> result, exc |-> o.exc,
                                       terminal |-> o.terminal,
                                       posted |-> Len(o.posts) > 0,
                                       post |-> IF Len(o.posts) > 0
                                                THEN Len(transport) + 1 ELSE 0,
                                       item |-> o.item, fed |-> o.fed])
            /\ last' = [kind |-> IF o.exc = "none" THEN "item" ELSE "raise",
                        signal |-> o.exc]
    /\ now' = now + 1
    /\ UNCHANGED <<entry, api_request_arugments, response, phase, handled, cleaned,
                   call, stream>>

NextTextStream == GetTextStream \/ GetAttr \/ ProxyNextText \/ ProxyExhausted

SpecTextStream == Init /\ [][NextTextStream]_vars

NextHandler == HandleStream \/ HandlePlain

\* async_wrapper has been entered: the start time was taken by the caller,
\* the provider coroutine is not yet awaited and no end time exists.
InitAsyncWrapper ==
    /\ entry = "async"
    /\ api_request_arugments \in
           [provider_type : ProviderTypes, return_pl_id : BOOLEAN, tags : {<<"tag">>},
            request_start_time : {0}, request_end_time : {None}]
    /\ response = [pytype |-> "coroutine", name |-> "coroutine"]
    /\ phase = "awaiting"
    /\ now = api_request_arugments.request_start_time
    /\ handled = NotHandled
    /\ results = <<>>
    /\ calls = <<>>
    /\ last = [kind |-> "none", signal |-> "none"]
    /\ transport = <<>>
    /\ cleaned = NotCleaned
    /\ call = NoCall
    /\ stream = NoStream

\* response = await coroutine_obj, when the provider call resolves.
ProviderResolves ==
    /\ phase = "awaiting"
    /\ response' \in Responses
    /\ now' = now + 1
    /\ phase' = "resolved"
    /\ UNCHANGED <<entry, api_request_arugments, handled, results, calls, last,
                   transport, cleaned, call, stream>>

\* Variant of ProviderRaises that reports the failed call before it raises.
ProviderRaisesReported ==
    /\ phase = "awaiting"
    /\ now' = now + 1
    /\ phase' = "provider_raised"
    /\ last' = [kind |-> "raise", signal |-> "ProviderError"]
    /\ transport' = Append(transport,
           Post("handler", "worker", entry, 0, api_request_arugments, now + 1,
                NetworkError, promptlayer_api_request(AsStr(""), FALSE, NetworkError)))
    /\ UNCHANGED <<entry, api_request_arugments, response, handled, results, calls,
                   cleaned, call, stream>>

\* response = await coroutine_obj, when the provider call raises: there is no
\* except clause, the finally clause detaches the context and the exception
\* leaves async_wrapper.
ProviderRaises ==
    /\ phase = "awaiting"
    /\ now' = now + 1
    /\ phase' = "provider_raised"
    /\ last' = [kind |-> "raise", signal |-> "ProviderError"]
    /\ UNCHANGED <<entry, api_request_arugments, response, handled, results, calls,
                   transport, cleaned, call, stream>>

\* request_end_time = datetime.datetime.now().timestamp(); the next statement
\* is the call of the handler.
StampEndTime ==
    /\ phase = "resolved"
    /\ api_request_arugments' = [api_request_arugments EXCEPT !.request_end_time = now]
    /\ phase' = "start"
    /\ UNCHANGED <<entry, response, handled, results, calls, last, transport, now,
                   cleaned, call, stream>>

\* async_wrapper: the await, the stamp, then promptlayer_api_handler_async,
\* which runs promptlayer_api_handler on a worker thread.
NextAsyncWrapper ==
    ProviderResolves \/ ProviderRaises \/ StampEndTime \/ HandleStream \/ HandlePlain

SpecAsyncWrapper == InitAsyncWrapper /\ [][NextAsyncWrapper]_vars

\* stream_response(generator, after_stream, map_results).  The frame holds
\* the chunks the generator has still to produce, the locals results and
\* data, and what happened so far: the items as they were when yielded and
\* the arguments of the calls of map_results and after_stream.  source is the
\* generator's whole output.
StreamChunks == {"c1", "c2"}
StreamSources == UNION {[1..n -> StreamChunks] : n \in 0..MaxStream}

\* data as created at lines 836-840.
NoData == [request_id |-> None, raw_response |-> None, prompt_blueprint |-> None]

\* map_results(results) and request_response.model_dump()
map_results(chunks) == [mapped |-> chunks]
model_dump(request_response) == [dumped |-> request_response.mapped]

\* What after_stream may return, and response.get(key).
AfterStreamResponses ==
    { [request_id |-> "pl-1", prompt_blueprint |-> "blueprint"],
      [request_id |-> "pl-1", prompt_blueprint |-> Absent] }
dict_get(answer, key) == IF answer[key] = Absent THEN None ELSE answer[key]

\* The generator object exists; its body has not started.
InitStream ==
    /\ entry = "sync"
    /\ api_request_arugments \in {a \in Snapshots : a.provider_type = "openai"}
    /\ response = GeneratorOf(entry)
    /\ phase = "stream_response"
    /\ now = api_request_arugments.request_end_time
    /\ handled = NotHandled
    /\ results = <<>>
    /\ calls = <<>>
    /\ last = [kind |-> "none", signal |-> "none"]
    /\ transport = <<>>
    /\ cleaned = NotCleaned
    /\ call = NoCall
    /\ \E source \in StreamSources :
         stream = [pc |-> "created", source |-> source, generator |-> source,
                   results |-> <<>>, data |-> NoData, yielded |-> <<>>,
                   map_results |-> <<>>, after_stream |-> <<>>]

NotStream == <<entry, api_request_arugments, response, phase, handled, results, calls,
               last, transport, now, cleaned, call>>

\* next() while the generator has a chunk: lines 842-845, up to the yield.
StreamNextChunk ==
    /\ phase = "stream_response"
    /\ stream.pc \in {"created", "yielded"}
    /\ stream.generator # <<>>
    /\ LET result == Head(stream.generator)
           data == [stream.data EXCEPT !.raw_response = result]
       IN stream' = [stream EXCEPT !.pc = "yielded",
                                   !.generator = Tail(@),
                                   !.results = Append(@, result),
                                   !.data = data,
                                   !.yielded = Append(@, data)]
    /\ UNCHANGED NotStream

\* next() once the generator is exhausted: lines 846-850, up to the yield.
StreamFinish ==
    /\ phase = "stream_response"
    /\ stream.pc \in {"created", "yielded"}
    /\ stream.generator = <<>>
    /\ \E answer \in AfterStreamResponses :
         LET request_response == map_results(stream.results)
             data == [stream.data EXCEPT
                         !.request_id = dict_get(answer, "request_id"),
                         !.prompt_blueprint = dict_get(answer, "prompt_blueprint")]
         IN stream' = [stream EXCEPT
                          !.pc = "final",
                          !.map_results = Append(@, stream.results),
                          !.after_stream = Append(@, model_dump(request_response)),
                          !.data = data,
                          !.yielded = Append(@, data)]
    /\ UNCHANGED NotStream

\* next() after the last yield: the body ends, StopIteration.
StreamStop ==
    /\ phase = "stream_response"
    /\ stream.pc = "final"
    /\ stream' = [stream EXCEPT !.pc = "done"]
    /\ UNCHANGED NotStream

\* Variant of StreamClose that reports what was streamed so far.
StreamCloseReports ==
    /\ phase = "stream_response"
    /\ stream.pc \in {"created", "yielded", "final"}
    /\ stream' = [stream EXCEPT
                     !.pc = "closed",
                     !.after_stream =
                         Append(@, model_dump(map_results(stream.results)))]
    /\ UNCHANGED NotStream

\* The consumer stops: the generator is closed (or collected) where it is
\* suspended, and nothing of its body runs any more.
StreamClose ==
    /\ phase = "stream_response"
    /\ stream.pc \in {"created", "yielded", "final"}
    /\ stream' = [stream EXCEPT !.pc = "closed"]
    /\ UNCHANGED NotStream

NextStream == StreamNextChunk \/ StreamFinish \/ StreamStop \/ StreamClose

SpecStream == InitStream /\ [][NextStream]_vars

\* No proxy: a caller about to use the transport functions.
InitTransport ==
    /\ entry = "sync"
    /\ api_request_arugments \in {a \in Snapshots : a.provider_type = "openai"}
    /\ response = GeneratorOf(entry)
    /\ phase = "transport"
    /\ now = api_request_arugments.request_end_time
    /\ handled = NotHandled
    /\ results = <<>>
    /\ calls = <<>>
    /\ last = [kind |-> "none", signal |-> "none"]
    /\ transport = <<>>
    /\ cleaned = NotCleaned
    /\ call = NoCall
    /\ stream = NoStream

\* A call of a transport function can be made.
Callable == phase = "transport" /\ Len(transport) < MaxCalls

\* The record of one call of fn that got reply and ended as r.
Made(fn, reply, r) ==
    [fn |-> fn, reply |-> reply, exc |-> r.exc, val |-> r.val, warnings |-> r.warnings]

\* The requests seen by the backend after fn has called endpoint.
Logged(fn, endpoint) == Append(transport, [endpoint |-> endpoint, origin |-> fn])

\* What the transport functions leave alone.
Untouched == <<entry, api_request_arugments, response, phase, handled, results, calls,
               last, now, cleaned, stream>>

ApiRequest ==
    /\ Callable
    /\ \E reply \in TransportReplies :
         call' = Made("promptlayer_api_request", reply,
                      promptlayer_api_request(AsStr("text"),
                                       api_request_arugments.return_pl_id, reply))
    /\ transport' = Logged("promptlayer_api_request", "/track-request")
    /\ UNCHANGED Untouched

TrackRequest ==
    /\ Callable
    /\ \E reply \in TransportReplies, json_is_request_exception \in BOOLEAN :
         call' = Made("track_request", reply,
                      track_request(reply, json_is_request_exception))
    /\ transport' = Logged("track_request", "/track-request")
    /\ UNCHANGED Untouched

TrackPrompt ==
    /\ Callable
    /\ \E reply \in TransportReplies :
         call' = Made("promptlayer_track_prompt", reply,
                      promptlayer_track_prompt(reply))
    /\ transport' = Logged("promptlayer_track_prompt", "/library-track-prompt")
    /\ UNCHANGED Untouched

TrackMetadata ==
    /\ Callable
    /\ \E reply \in TransportReplies :
         call' = Made("promptlayer_track_metadata", reply,
                      promptlayer_track_metadata(reply))
    /\ transport' = Logged("promptlayer_track_metadata", "/library-track-metadata")
    /\ UNCHANGED Untouched

TrackScore ==
    /\ Callable
    /\ \E reply \in TransportReplies :
         call' = Made("promptlayer_track_score", reply,
                      promptlayer_track_score(reply))
    /\ transport' = Logged("promptlayer_track_score", "/library-track-score")
    /\ UNCHANGED Untouched

CreateGroup ==
    /\ Callable
    /\ \E reply \in TransportReplies :
         call' = Made("promptlayer_create_group", reply,
                      promptlayer_create_group(reply))
    /\ transport' = Logged("promptlayer_create_group", "/create-group")
    /\ UNCHANGED Untouched

TrackGroup ==
    /\ Callable
    /\ \E reply \in TransportReplies :
         call' = Made("promptlayer_track_group", reply,
                      promptlayer_track_group(reply))
    /\ transport' = Logged("promptlayer_track_group", "/track-group")
    /\ UNCHANGED Untouched

GetPrompt ==
    /\ Callable
    /\ \E reply \in TransportReplies :
         call' = Made("promptlayer_get_prompt", reply,
                      promptlayer_get_prompt(reply))
    /\ transport' = Logged("promptlayer_get_prompt", "/library-get-prompt-template")
    /\ UNCHANGED Untouched

PublishPrompt ==
    /\ Callable
    /\ \E reply \in TransportReplies :
         call' = Made("promptlayer_publish_prompt", reply,
                      promptlayer_publish_prompt(reply))
    /\ transport' = Logged("promptlayer_publish_prompt", "/library-publish-prompt-template")
    /\ UNCHANGED Untouched

GetPromptTemplate ==
    /\ Callable
    /\ \E reply \in TransportReplies, json_is_request_exception \in BOOLEAN :
         call' = Made("get_prompt_template", reply,
                      get_prompt_template(reply, json_is_request_exception))
    /\ transport' = Logged("get_prompt_template", "/prompt-templates/{prompt_name}")
    /\ UNCHANGED Untouched

PublishPromptTemplate ==
    /\ Callable
    /\ \E reply \in TransportReplies, json_is_request_exception \in BOOLEAN :
         call' = Made("publish_prompt_template", reply,
                      publish_prompt_template(reply, json_is_request_exception))
    /\ transport' = Logged("publish_prompt_template", "/rest/prompt-templates")
    /\ UNCHANGED Untouched

NextTransport ==
    \/ ApiRequest \/ TrackRequest \/ TrackPrompt \/ TrackMetadata \/ TrackScore
    \/ CreateGroup \/ TrackGroup \/ GetPrompt \/ PublishPrompt
    \/ GetPromptTemplate \/ PublishPromptTemplate

SpecTransport == InitTransport /\ [][NextTransport]_vars

SpecHandler == InitHandler /\ [][NextHandler]_vars

\* A choice with neither text nor delta.
BareChoice == [finish_reason |-> "stop", text |-> Absent, delta |-> NoDelta]

\* The chunks a buffer given to cleaned_result may hold, per provider.
ReassemblyChunks(p) ==
    IF p = "anthropic" THEN
        { LegacyCompletion("foo", None, "False"),
          LegacyCompletion("bar", "stop_sequence", "True"),
          MessageStart, ContentBlockStart("false"), ContentBlockText("cb", "false"),
          ContentBlockText("cb", "true"),
          ContentBlockDelta("Hi"), MessageDelta, MessageStop, MessageText("m"), Blank }
    ELSE
        { WithChoices(<<ChatChoice("assistant", "Hel", None)>>),
          WithChoices(<<ChatChoice(None, "lo", None)>>),
          WithChoices(<<ChatChoice(None, " world", "stop")>>),
          WithChoices(<<ChatChoice("user", None, None)>>),
          WithChoices(<<TextChoice("A", None)>>),
          WithChoices(<<TextChoice("B", None)>>),
          WithChoices(<<TextChoice("C", "stop")>>),
          WithChoices(<<BareChoice>>), WithChoices(<<>>), Blank }

Buffers(p) == UNION {[1..n -> ReassemblyChunks(p)] : n \in 1..MaxBuffer}

\* A proxy whose buffer holds some chunks, before a call of cleaned_result.
InitReassembly ==
    /\ entry = "sync"
    /\ api_request_arugments \in {a \in Snapshots : ~a.return_pl_id}
    /\ response = GeneratorOf(entry)
    /\ phase = "buffered"
    /\ now = api_request_arugments.request_end_time
    /\ handled = promptlayer_api_handler(response, api_request_arugments, NetworkError,
                                         handler_thread(entry), entry, now)
    /\ results \in Buffers(api_request_arugments.provider_type)
    /\ calls = <<>>
    /\ last = [kind |-> "none", signal |-> "none"]
    /\ transport = <<>>
    /\ cleaned = NotCleaned
    /\ call = NoCall
    /\ stream = NoStream

\* GeneratorProxy.cleaned_result()
Reassemble ==
    /\ phase = "buffered"
    /\ LET final_result == cleaned_result(results, api_request_arugments.provider_type) IN
       cleaned' = [input |-> results, exc |-> final_result.exc, val |-> final_result.val]
    /\ results' = results_after_cleaned_result(results, api_request_arugments.provider_type)
    /\ phase' = "reassembled"
    /\ UNCHANGED <<entry, api_request_arugments, response, handled, calls, last,
                   transport, now, call, stream>>

NextReassembly == Reassemble

SpecReassembly == InitReassembly /\ [][NextReassembly]_vars

-----------------------------------------------------------------------------
(* Vocabulary of the properties.                                           *)

provider_type == api_request_arugments.provider_type
return_pl_id == api_request_arugments.return_pl_id

DirectStopReason(c) == c.stop_reason # Absent /\ Truthy(c.stop_reason)
NestedStopReason(c) ==
    c.message.kind = "obj" /\ c.message.stop_reason # Absent
    /\ Truthy(c.message.stop_reason)
StopMarker(c) == c.type = "message_stop"
StopFlag(c) == c.stop = "True"
FinishReasons(c) ==
    IF c.choices.kind = "list" /\ Len(c.choices.items) > 0
    THEN {c.choices.items[1].finish_reason} ELSE {}

\* A terminal chunk as the design describes it, per provider.
TerminalChunk(p, c) ==
    IF p = "openai" THEN FinishReasons(c) \cap {"stop", "length"} # {}
    ELSE DirectStopReason(c) \/ NestedStopReason(c) \/ StopMarker(c) \/ StopFlag(c)

Consumed == 1..Len(calls)
NoTerminalConsumed == \A k \in Consumed : ~TerminalChunk(provider_type, calls[k].chunk)
Proxied == {i \in 1..Len(transport) : transport[i].origin = "proxy"}

Reassembled == phase = "reassembled"
LastInput == cleaned.input[Len(cleaned.input)]

\* The strings of a sequence, joined in order.
RECURSIVE Joined(_)
Joined(texts) == IF texts = <<>> THEN "" ELSE Head(texts) \o Joined(Tail(texts))

\* Buffer shapes of the design.
ChatChunk(c) ==
    /\ c.choices.kind = "list" /\ Len(c.choices.items) > 0
    /\ c.choices.items[1].text = Absent /\ c.choices.items[1].delta.kind = "obj"
TextChunk(c) ==
    /\ c.choices.kind = "list" /\ Len(c.choices.items) > 0
    /\ c.choices.items[1].text # Absent
LegacyChunk(c) == c.completion # Absent /\ c.type # "message_stop"
AllInput(Shape(_)) == \A i \in 1..Len(cleaned.input) : Shape(cleaned.input[i])

DeltaOf(c) == c.choices.items[1].delta
RoleSet(c) == DeltaOf(c).role \notin {Absent, None}
ContentSet(c) == DeltaOf(c).content \notin {Absent, None}
Roles == {i \in 1..Len(cleaned.input) : RoleSet(cleaned.input[i])}
LastRole ==
    IF Roles = {} THEN ""
    ELSE DeltaOf(cleaned.input[CHOOSE i \in Roles : \A j \in Roles : j <= i]).role
ContentDeltas ==
    LET set == SelectSeq(cleaned.input, ContentSet)
    IN [i \in 1..Len(set) |-> DeltaOf(set[i]).content]
Texts == [i \in 1..Len(cleaned.input) |-> cleaned.input[i].choices.items[1].text]
Completions == [i \in 1..Len(cleaned.input) |-> cleaned.input[i].completion]

-----------------------------------------------------------------------------
(* Properties.                                                             *)

\* C1: when the stream was N non-terminal chunks and then one terminal chunk
\* and the caller has iterated it to exhaustion, every one of the N+1 next
\* calls returned an item, and the k-th item carries the k-th chunk.
C1_ForwardsEveryChunk ==
    ( /\ last.kind = "stop"
      /\ Len(calls) >= 1
      /\ TerminalChunk(provider_type, calls[Len(calls)].chunk)
      /\ \A k \in 1..(Len(calls) - 1) : ~TerminalChunk(provider_type, calls[k].chunk) )
    => \A k \in Consumed : calls[k].exc = "none" /\ calls[k].item.chunk = calls[k].chunk

\* C2: as long as no terminal chunk has been consumed, the session has made
\* no /track-request call, however many chunks were consumed.
C2_NoTerminalNoDispatch == NoTerminalConsumed => transport = <<>>

C2_Abandoned ==
    /\ Len(calls) >= 2
    /\ NoTerminalConsumed
    /\ last.kind = "item"
    /\ transport = <<>>

\* C3: every next call that obtained a chunk from the wrapped stream returned
\* that chunk and did not raise.
C3_NextNeverRaises ==
    \A k \in Consumed : calls[k].exc = "none" /\ calls[k].item.chunk = calls[k].chunk

\* C4: a POST answered with a status other than 200 makes
\* promptlayer_api_request warn and return None without raising, whatever
\* return_pl_id and the body are.
C4_BadStatusNeverRaises ==
    \A i \in 1..Len(transport) :
        (transport[i].reply.net = "ok" /\ transport[i].reply.status # 200)
        => /\ transport[i].exc = "none"
           /\ transport[i].warnings >= 1
           /\ transport[i].val = None

\* C5: a returned item is the bare chunk when return_pl_id is false and the
\* pair (chunk, id) when it is true; the id is None unless the chunk is
\* terminal, and then it is what the dispatch of that call returned.
C5_ReturnShape ==
    \A k \in Consumed :
        calls[k].exc = "none" =>
            LET item == calls[k].item IN
            /\ item.chunk = calls[k].chunk
            /\ item.paired = return_pl_id
            /\ ~return_pl_id => item.request_id = Absent
            /\ (return_pl_id /\ ~TerminalChunk(provider_type, calls[k].chunk))
                   => item.request_id = None
            /\ (return_pl_id /\ ~calls[k].posted) => item.request_id = None
            /\ (return_pl_id /\ calls[k].posted) =>
                   LET post == transport[calls[k].post] IN
                   /\ item.request_id = post.val
                   /\ (post.reply.net = "ok" /\ post.reply.body.request_id # Absent)
                          => item.request_id = post.reply.body.request_id
                   /\ post.reply.net = "error" => item.request_id = None

C5_IdOnTerminalOnly ==
    /\ return_pl_id
    /\ \E k \in Consumed : calls[k].exc = "none" /\ ~calls[k].terminal
                           /\ calls[k].item.request_id = None
    /\ \E k \in Consumed : calls[k].exc = "none" /\ calls[k].terminal
                           /\ calls[k].item.request_id \notin {None, Absent}

\* C6: a next call that finds the wrapped stream exhausted, no terminal chunk
\* having been seen, ends with the stream's own signal, leaves the buffer as
\* it was and makes no POST.
C6_ExhaustionPropagates ==
    [][ (NoTerminalConsumed /\ last'.kind = "stop")
        => /\ results' = results
           /\ transport' = transport
           /\ last'.signal = IF entry = "async" THEN "StopAsyncIteration"
                             ELSE "StopIteration" ]_vars

C6_ExhaustedUnterminated ==
    /\ last.kind = "stop"
    /\ Len(calls) >= 1
    /\ NoTerminalConsumed
    /\ Len(results) = Len(calls)
    /\ transport = <<>>

\* C7: every POST made on an asynchronous call path runs on the worker of
\* run_in_thread_async.
C7_AsyncPostsOnWorker ==
    \A i \in 1..Len(transport) :
        transport[i].entry = "async" => transport[i].thread = "worker"

\* C8: once promptlayer_api_handler has run, either the response was a stream,
\* a proxy over it was returned and no POST was made, or it was not, exactly
\* one POST was made and the response was returned, paired with the id iff
\* return_pl_id.
C8_HandlerBranches ==
    phase # "start" =>
        IF response.pytype \in {"generator", "async_generator"}
           \/ response.name \in {"Stream", "AsyncStream", "MessageStreamManager",
                                 "AsyncMessageStreamManager"}
        THEN /\ handled.kind = "proxy"
             /\ handled.value.chunk = response
             /\ transport = <<>>
        ELSE /\ handled.kind = "value"
             /\ handled.value.chunk = response
             /\ handled.value.paired = return_pl_id
             /\ Len(transport) = 1

\* C9: with provider_type openai a chunk is treated as terminal iff its first
\* choice's finish_reason is "stop" or "length".
C9_OpenAITerminal ==
    provider_type = "openai" =>
        \A k \in Consumed :
            calls[k].terminal <=> (FinishReasons(calls[k].chunk) \cap {"stop", "length"} # {})

C9_BothReasonsSeen ==
    /\ provider_type = "openai"
    /\ \E k \in Consumed : calls[k].terminal /\ FinishReasons(calls[k].chunk) = {"length"}
    /\ \E k \in Consumed : ~calls[k].terminal /\ FinishReasons(calls[k].chunk) = {"tool_calls"}

\* C10 as stated: with provider_type anthropic a chunk is treated as terminal
\* whenever it has a truthy stop_reason, or its nested message has one, or its
\* type is message_stop, or its stop flag is set.
C10_AnyStopSignal ==
    provider_type = "anthropic" =>
        \A k \in Consumed :
            ( \/ DirectStopReason(calls[k].chunk)
              \/ NestedStopReason(calls[k].chunk)
              \/ StopMarker(calls[k].chunk)
              \/ StopFlag(calls[k].chunk) )
            => calls[k].terminal

\* C10 amended: with provider_type anthropic a chunk is treated as terminal
\* exactly when the first of stop_reason, message, type that it exposes says
\* so: a truthy stop_reason; else, with no stop_reason attribute, a nested
\* message with a truthy stop_reason; else, with neither attribute, the type
\* message_stop.  The stop flag is not consulted.
C10_FirstExposedField ==
    provider_type = "anthropic" =>
        \A k \in Consumed :
            LET c == calls[k].chunk IN
            calls[k].terminal <=>
                \/ DirectStopReason(c)
                \/ c.stop_reason = Absent /\ NestedStopReason(c)
                \/ c.stop_reason = Absent /\ c.message.kind = "absent" /\ StopMarker(c)

C10_FlagIgnoredMarkerSeen ==
    /\ provider_type = "anthropic"
    /\ \E k \in Consumed : StopFlag(calls[k].chunk) /\ ~calls[k].terminal
    /\ \E k \in Consumed : StopMarker(calls[k].chunk) /\ calls[k].terminal
                           /\ calls[k].chunk.message.kind = "absent"
    /\ \E k \in Consumed : NestedStopReason(calls[k].chunk) /\ calls[k].terminal

(* C11: for an OpenAI buffer of chat chunks, reassembly returns a copy of
   the last chunk whose first choice is the pair {role, content}: role is
   the last non-null role delta (the empty string when there was none) and
   content is the concatenation, in order, of the non-null content deltas. *)
C11_ChatReassembly ==
    (Reassembled /\ provider_type = "openai" /\ AllInput(ChatChunk)) =>
        /\ cleaned.exc = "none"
        /\ cleaned.val = AsObject([LastInput EXCEPT !.choices.items =
               ReplaceFirst(@, [role |-> LastRole, content |-> Joined(ContentDeltas)])])

C11_HelloWorld ==
    /\ Reassembled /\ provider_type = "openai"
    /\ cleaned.input = << WithChoices(<<ChatChoice("assistant", "Hel", None)>>),
                          WithChoices(<<ChatChoice(None, "lo", None)>>),
                          WithChoices(<<ChatChoice(None, " world", "stop")>>) >>
    /\ cleaned.exc = "none"
    /\ cleaned.val.obj.choices.items[1] = [role |-> "assistant", content |-> "Hello world"]

(* C12: for an OpenAI buffer of text-completion chunks, reassembly returns a
   copy of the last chunk whose first-choice text is the concatenation, in
   order, of every chunk's first-choice text. *)
C12_TextReassembly ==
    (Reassembled /\ provider_type = "openai" /\ AllInput(TextChunk)) =>
        /\ cleaned.exc = "none"
        /\ cleaned.val = AsObject([LastInput EXCEPT !.choices.items =
               ReplaceFirst(@, [LastInput.choices.items[1] EXCEPT !.text = Joined(Texts)])])

C12_ABC ==
    /\ Reassembled /\ provider_type = "openai"
    /\ cleaned.input = << WithChoices(<<TextChoice("A", None)>>),
                          WithChoices(<<TextChoice("B", None)>>),
                          WithChoices(<<TextChoice("C", "stop")>>) >>
    /\ cleaned.exc = "none"
    /\ cleaned.val.obj.choices.items[1].text = "ABC"
    /\ cleaned.val.obj.choices.items[1].finish_reason = "stop"

(* C13: for an Anthropic buffer of legacy completion chunks, reassembly
   returns a copy of the last chunk whose completion is the concatenation,
   in order, of every chunk's completion. *)
C13_LegacyReassembly ==
    (Reassembled /\ provider_type = "anthropic" /\ AllInput(LegacyChunk)) =>
        /\ cleaned.exc = "none"
        /\ cleaned.val = AsObject([LastInput EXCEPT !.completion = Joined(Completions)])

C13_Foobar ==
    /\ Reassembled /\ provider_type = "anthropic"
    /\ cleaned.input = << LegacyCompletion("foo", None, "False"),
                          LegacyCompletion("bar", "stop_sequence", "True") >>
    /\ cleaned.exc = "none"
    /\ cleaned.val.obj.completion = "foobar"
    /\ cleaned.val.obj.stop_reason = "stop_sequence"

(* C14: reassembly leaves the buffered chunks as they were: after a call of
   cleaned_result the buffer equals the buffer the call was given. *)
C14_BufferNotMutated == Reassembled => results = cleaned.input

C14_RewrittenCopy ==
    /\ Reassembled /\ cleaned.exc = "none" /\ cleaned.val.form = "object"
    /\ Len(cleaned.input) > 1
    /\ cleaned.val.obj \notin {cleaned.input[i] : i \in 1..Len(cleaned.input)}
    /\ results = cleaned.input

\* A chunk of none of the shapes the reassembly recognizes.
Unrecognized(p, c) ==
    IF p = "anthropic"
    THEN /\ c.completion = Absent /\ c.message.kind = "absent"
         /\ c.content_block.kind = "absent" /\ c.delta.kind = "absent"
         /\ c.type # "message_stop"
    ELSE ~ChatChunk(c) /\ ~TextChunk(c)

(* C15: when no buffered chunk has a recognized shape, reassembly returns
   the empty string and does not raise, for either provider. *)
C15_UnrecognizedYieldsEmpty ==
    (Reassembled /\ \A i \in 1..Len(cleaned.input) :
                        Unrecognized(provider_type, cleaned.input[i])) =>
        /\ cleaned.exc = "none"
        /\ cleaned.val = AsStr("")

(* C16: every report of a streamed call carries, as request_end_time, the
   time at which the stream completed (the time of the report), and carries
   the start time and the tags of the snapshot taken at creation. *)
C16_EndTimeAtCompletion ==
    \A i \in Proxied :
        /\ transport[i].request_end_time = transport[i].at
        /\ transport[i].request_start_time = api_request_arugments.request_start_time
        /\ transport[i].tags = api_request_arugments.tags

(* C17: chunks iterated through the text view of an Anthropic stream are
   accumulated, and once the text view has produced chunks and is exhausted
   the session has been reported. *)
C17_TextViewReported ==
    (/\ provider_type = "anthropic" /\ response.name = "text_stream"
     /\ last.kind = "stop" /\ results # <<>>) =>
        /\ \A k \in 1..Len(results) : results[k].value # Absent
        /\ Proxied # {}

\* The fire-and-forget functions the design lists, and the explicit-result
\* ones (template fetch and publish).
FireAndForget ==
    {"promptlayer_api_request", "track_request", "promptlayer_track_prompt",
     "promptlayer_track_metadata", "promptlayer_track_score",
     "promptlayer_create_group", "promptlayer_track_group"}
ExplicitResult ==
    {"promptlayer_get_prompt", "promptlayer_publish_prompt", "get_prompt_template",
     "publish_prompt_template"}
NetworkFailed == call.fn # "none" /\ call.reply.net = "error"

(* C18, as stated: on a network failure every fire-and-forget function
   catches it, warns and returns; only the explicit-result functions raise. *)
C18_FireAndForgetNeverRaises ==
    NetworkFailed =>
        IF call.fn \in FireAndForget
        THEN call.exc = "none" /\ call.warnings = 1
        ELSE call.exc # "none"

(* C18, amended: on a network failure promptlayer_api_request,
   track_request and promptlayer_track_prompt/metadata/score warn once and
   return; promptlayer_create_group and promptlayer_track_group raise
   Exception to the caller without a warning, as the explicit-result
   functions do. *)
C18_GroupCallsRaise ==
    NetworkFailed =>
        IF call.fn \in FireAndForget \ {"promptlayer_create_group", "promptlayer_track_group"}
        THEN call.exc = "none" /\ call.warnings = 1
        ELSE call.exc = "Exception" /\ call.warnings = 0

C18_GroupCreationFailed ==
    /\ call.fn = "promptlayer_create_group" /\ call.reply = NetworkError
    /\ call.exc = "Exception"
    /\ \E i \in 1..Len(transport) : transport[i].origin = "track_request"

(* C19: the buffer is exactly the chunks obtained so far, in arrival order,
   whether the call that obtained a chunk returned or raised; nothing is
   reordered, dropped or cleared. *)
C19_BufferIsArrivalOrder == results = [k \in Consumed |-> calls[k].chunk]

C19_BufferedThoughCheckFailed ==
    /\ Len(calls) >= 2
    /\ \E k \in Consumed : calls[k].exc = "IndexError" /\ ~calls[k].terminal
    /\ \E k \in Consumed : calls[k].terminal /\ calls[k].posted /\ calls[k].exc # "none"
    /\ results = [k \in Consumed |-> calls[k].chunk]

(* C20: a call that obtains a terminal chunk buffers it, reassembles the
   whole buffer with that chunk in it, dispatches the reassembled response
   as the body of one report, and only then returns the chunk: the k-th call
   reports k buffered chunks, an item is returned only after the report, and
   nothing is reported when the reassembly fails. *)
C20_TerminalOrder ==
    \A k \in Consumed : calls[k].terminal =>
        LET full == SubSeq(results, 1, k)
            whole == cleaned_result(full, provider_type)
        IN /\ full[k] = calls[k].chunk
           /\ IF whole.exc # "none"
              THEN ~calls[k].posted /\ calls[k].exc = whole.exc /\ calls[k].item = NoItem
              ELSE /\ calls[k].posted
                   /\ transport[calls[k].post].buffered = k
                   /\ transport[calls[k].post].body = to_dict(whole.val)
                   /\ calls[k].exc = transport[calls[k].post].exc
                   /\ calls[k].item # NoItem =>
                          /\ calls[k].item.chunk = calls[k].chunk
                          /\ calls[k].exc = "none"

C20_ReportedThenReturned ==
    \E k \in Consumed :
        /\ k >= 2 /\ calls[k].terminal /\ calls[k].posted
        /\ calls[k].item # NoItem /\ calls[k].item.chunk = calls[k].chunk
        /\ transport[calls[k].post].buffered = k
        /\ transport[calls[k].post].body.form = "dict"
        /\ transport[calls[k].post].body.obj # calls[k].chunk

(* C21: whenever a next call invokes the reassembly, the buffer it works on
   is not empty: it holds every chunk obtained so far, the terminal chunk of
   that call last; a call whose chunk is not terminal does not invoke it. *)
C21_ReassemblyBufferNonEmpty ==
    \A k \in Consumed :
        IF calls[k].terminal
        THEN calls[k].fed = k /\ calls[k].fed >= 1 /\ results[k] = calls[k].chunk
        ELSE calls[k].fed = 0

C21_FirstChunkTerminal ==
    /\ Len(calls) >= 1 /\ calls[1].terminal /\ calls[1].fed = 1
    /\ calls[1].posted /\ calls[1].exc = "none"

\* The text one chunk contributes, by the precedence of the design:
\* completion, message if a plain string, content_block.text unless the chunk
\* is the message_stop marker, delta.text, else nothing.
Contribution(c) ==
    IF c.completion # Absent THEN c.completion
    ELSE IF c.message.kind = "str" THEN c.message.text
    ELSE IF c.content_block.kind = "obj" /\ c.content_block.text # Absent
            /\ c.type # "message_stop"
         THEN c.content_block.text
    ELSE IF c.delta.kind = "obj" /\ c.delta.text # Absent THEN c.delta.text
    ELSE ""
Contributions == [i \in 1..Len(cleaned.input) |-> Contribution(cleaned.input[i])]

(* C22: for every Anthropic buffer whose last chunk is the message_stop
   marker, reassembly returns, without raising, a copy of the first chunk's
   message with usage cleared and one content block: the second chunk's
   content_block with its text replaced by the accumulated text. *)
C22_MessageStopReassembly ==
    (Reassembled /\ provider_type = "anthropic" /\ LastInput.type = "message_stop") =>
        /\ cleaned.exc = "none"
        /\ cleaned.val = AsObject([cleaned.input[1].message EXCEPT
               !.usage = None,
               !.content = <<[cleaned.input[2].content_block EXCEPT
                                !.text = Joined(Contributions)]>>])

(* C23: in Anthropic reassembly every chunk contributes the text of at most
   one field, chosen by the precedence completion, message (a plain string),
   content_block.text (not on the message_stop marker), delta.text, and the
   contributions are concatenated in arrival order. *)
C23_ContributionPrecedence ==
    (Reassembled /\ provider_type = "anthropic" /\ LastInput.type # "message_stop") =>
        /\ cleaned.exc = "none"
        /\ cleaned.val.obj.completion = Joined(Contributions)

(* C24: async_wrapper awaits the provider call first, stamps
   request_end_time only once that call has resolved, and only then runs the
   handler branch, on the worker thread; when the provider call raises, the
   exception reaches the caller, nothing is dispatched and the handler does
   not run. *)
C24_AsyncWrapperOrder ==
    /\ phase \in {"awaiting", "resolved", "provider_raised"} =>
          /\ api_request_arugments.request_end_time = None
          /\ handled = NotHandled
          /\ transport = <<>>
    /\ phase = "provider_raised" => last = [kind |-> "raise", signal |-> "ProviderError"]
    /\ phase \notin {"awaiting", "resolved", "provider_raised"} =>
          /\ api_request_arugments.request_end_time = now
          /\ api_request_arugments.request_end_time >
                 api_request_arugments.request_start_time
          /\ \A i \in 1..Len(transport) :
                 /\ transport[i].thread = "worker"
                 /\ transport[i].request_end_time = api_request_arugments.request_end_time
    /\ handled # NotHandled => phase \in {"streaming", "returned", "raised"}

C24_ResolvedThenDispatched ==
    /\ phase = "returned" /\ handled.kind = "value"
    /\ Len(transport) = 1 /\ transport[1].origin = "handler"
    /\ transport[1].thread = "worker"
    /\ transport[1].request_end_time = now
    /\ api_request_arugments.request_end_time > api_request_arugments.request_start_time

\* The calls that consumed a chunk the proxy found terminal.
TerminalCalls == {k \in Consumed : calls[k].terminal}

(* C25: in one proxy session the number of /track-request dispatch attempts
   equals the number of terminal chunks consumed so far, and the payload of
   each is reassembled from the whole buffer accumulated since creation. *)
C25_DispatchPerTerminalChunk ==
    /\ Cardinality(Proxied) = Cardinality(TerminalCalls)
    /\ \A k \in TerminalCalls :
           /\ calls[k].posted
           /\ transport[calls[k].post].buffered = k

\* N, the number of chunks of the generator given to stream_response.
StreamLength == Len(stream.source)
Exhausted == Len(stream.yielded) = StreamLength + 1

(* C26: stream_response over a generator of N chunks yields N + 1 items.
   The first N carry, when yielded, the corresponding chunk as raw_response
   with request_id and prompt_blueprint None.  map_results and after_stream
   are each called once, after the generator is exhausted, with all N chunks
   in arrival order, before the last item, which carries the request_id and
   prompt_blueprint of after_stream's answer.  When the consumer stops
   before that, after_stream is never called. *)
C26_StreamResponse ==
    /\ Len(stream.yielded) <= StreamLength + 1
    /\ stream.pc \in {"final", "done"} => Exhausted
    /\ \A i \in 1..Len(stream.yielded) : i <= StreamLength =>
           stream.yielded[i] = [request_id |-> None, raw_response |-> stream.source[i],
                                prompt_blueprint |-> None]
    /\ IF Exhausted
       THEN /\ stream.map_results = <<stream.source>>
            /\ stream.after_stream = <<[dumped |-> stream.source]>>
            /\ stream.generator = <<>>
            /\ stream.yielded[StreamLength + 1].request_id = "pl-1"
            /\ stream.yielded[StreamLength + 1].prompt_blueprint \in {"blueprint", None}
       ELSE stream.map_results = <<>> /\ stream.after_stream = <<>>

C26_AllYielded ==
    /\ stream.pc = "done" /\ StreamLength = 2
    /\ Len(stream.yielded) = 3
    /\ stream.yielded[1].raw_response = "c1" /\ stream.yielded[2].raw_response = "c2"
    /\ stream.yielded[1].request_id = None
    /\ stream.yielded[3].request_id = "pl-1"
    /\ stream.after_stream = <<[dumped |-> <<"c1", "c2">>]>>

====
